---- MODULE Spec2Model ----
(***************************************************************************)
(* A model of app.py of context_landing: the case collection (slugs) and   *)
(* the user collection (signup, linked Yandex Direct accounts), both kept  *)
(* in JSON files that every handler loads, changes in memory and saves.    *)
(*                                                                         *)
(* Strings are sequences of characters; a character is a one-symbol TLA+   *)
(* string. The Cyrillic letters are written "zh" (U+0436), "ZH" (U+0416),  *)
(* "ie" (U+0435), "io" (U+0451, with diaeresis) and "IO" (U+0401).         *)
(***************************************************************************)
EXTENDS Integers, Sequences, FiniteSets, TLC

VARIABLES cases_file, users_file, pc, loc, uloc, session, hist, ops,
          covers_dir, covers_made, cases_torn

\* what is on the disk besides the two collections: the cover files, and
\* whether data/cases.json is open for writing, its text not yet written
disk == <<covers_dir, covers_made, cases_torn>>

vars == <<cases_file, users_file, pc, loc, uloc, session, hist, ops, disk>>

(***************************************************************************)
(* Bounds of the model.                                                    *)
(***************************************************************************)
MaxCases == 3
MaxOps == 4
MaxCovers == 2

Procs == {1, 2}
SeqProcs == {1}

\* None, for a value that may be absent
Null == <<"null">>

(***************************************************************************)
(* Characters and the str methods the handlers use.                        *)
(***************************************************************************)
AsciiLower == {"a", "b", "c", "e", "s", "t", "x", "y"}
AsciiUpper == {"A", "B"}
CyrLower == {"zh", "ie"}
CyrUpper == {"ZH"}
DigitChars == <<"0", "1", "2", "3", "4", "5", "6", "7", "8", "9">>
Digits == {DigitChars[i] : i \in 1..10}
Whitespace == {" ", "\t"}

\* str.lower() on one character
LowerChar(c) ==
    CASE c = "A" -> "a"
      [] c = "B" -> "b"
      [] c = "ZH" -> "zh"
      [] c = "IO" -> "io"
      [] OTHER -> c

Lower(s) == [i \in 1..Len(s) |-> LowerChar(s[i])]

IsSpace(c) == c \in Whitespace

\* str.strip(): drop the leading and the trailing whitespace
Strip(s) ==
    LET keep == {i \in 1..Len(s) : ~IsSpace(s[i])}
    IN IF keep = {} THEN <<>>
       ELSE LET lo == CHOOSE i \in keep : \A j \in keep : i <= j
                hi == CHOOSE i \in keep : \A j \in keep : j <= i
            IN SubSeq(s, lo, hi)

\* str(n) for n >= 0
RECURSIVE Str(_)
Str(n) == IF n < 10 THEN <<DigitChars[n + 1]>>
          ELSE Str(n \div 10) \o <<DigitChars[(n % 10) + 1]>>

(***************************************************************************)
(* slugify                                                                 *)
(***************************************************************************)
\* the class [a-zA-Zа-яА-Я0-9\s-]: "io" and "IO" lie outside the ranges
SlugChar(c) ==
    c \in AsciiLower \cup AsciiUpper \cup CyrLower \cup CyrUpper
          \cup Digits \cup Whitespace \cup {"-"}

\* re.sub(r"\s+", "-", s)
RECURSIVE SpacesToHyphen(_)
SpacesToHyphen(s) ==
    IF s = <<>> THEN <<>>
    ELSE IF IsSpace(s[1])
         THEN IF Len(s) > 1 /\ IsSpace(s[2])
              THEN SpacesToHyphen(Tail(s))
              ELSE <<"-">> \o SpacesToHyphen(Tail(s))
         ELSE <<s[1]>> \o SpacesToHyphen(Tail(s))

\* re.sub(r"-+", "-", s)
RECURSIVE CollapseHyphens(_)
CollapseHyphens(s) ==
    IF s = <<>> THEN <<>>
    ELSE IF s[1] = "-" /\ Len(s) > 1 /\ s[2] = "-"
         THEN CollapseHyphens(Tail(s))
         ELSE <<s[1]>> \o CollapseHyphens(Tail(s))

FallbackSlug == <<"c", "a", "s", "e">>

slugify(text) ==
    LET cleaned == Lower(Strip(SelectSeq(text, SlugChar)))
        replaced == [i \in 1..Len(cleaned) |->
                        IF cleaned[i] = "io" THEN "ie" ELSE cleaned[i]]
        slug == CollapseHyphens(SpacesToHyphen(replaced))
    IN IF slug = <<>> THEN FallbackSlug ELSE slug

(***************************************************************************)
(* make_unique_slug: `stored` is what load_cases() returns at the call;    *)
(* old_slug = <<>> stands for None (and for "", which is falsy too).       *)
(***************************************************************************)
SlugsOf(cases) == {cases[i].slug : i \in 1..Len(cases)}

UsedSlugs(stored, old_slug) ==
    IF old_slug # <<>> THEN SlugsOf(stored) \ {old_slug} ELSE SlugsOf(stored)

\* a slip: the suffix without its hyphen
Candidate_NoHyphen(base_slug, counter) == base_slug \o Str(counter)

Candidate(base_slug, counter) == base_slug \o <<"-">> \o Str(counter)

RECURSIVE SlugLoop(_, _, _, _)
SlugLoop(base_slug, used_slugs, candidate, counter) ==
    IF candidate \in used_slugs
    THEN SlugLoop(base_slug, used_slugs, Candidate(base_slug, counter), counter + 1)
    ELSE candidate

\* a slip: the base slug is returned without looking at the collection
make_unique_slug_BaseOnly(title, old_slug, stored) == slugify(title)

\* a slip: the counter starts at 1
make_unique_slug_From1(title, old_slug, stored) ==
    LET base_slug == slugify(title)
    IN IF base_slug \in UsedSlugs(stored, old_slug)
       THEN SlugLoop(base_slug, UsedSlugs(stored, old_slug),
                     Candidate(base_slug, 1), 2)
       ELSE base_slug

make_unique_slug(title, old_slug, stored) ==
    LET base_slug == slugify(title)
    IN SlugLoop(base_slug, UsedSlugs(stored, old_slug), base_slug, 2)

(***************************************************************************)
(* The case handlers. A handler runs as a process p: pc[p] is its place in *)
(* the code and loc[p] its local variables, kept after it returns as the   *)
(* record of what the request did. Each file read and each file write is   *)
(* one step.                                                               *)
(***************************************************************************)
NoLoc ==
    [op |-> "none", outcome |-> "none", cases |-> <<>>, idx |-> 0,
     title |-> <<>>, subtitle |-> <<>>, slug |-> <<>>,
     old_slug |-> <<>>, old_title |-> <<>>,
     upload |-> [stem |-> <<>>, suffix |-> ""], cover |-> <<>>,
     old_cover |-> <<>>, fault |-> "none"]

\* what is kept of a request that has returned
Returned(l, outcome) ==
    [NoLoc EXCEPT !.op = l.op, !.outcome = outcome, !.title = l.title,
                  !.slug = l.slug, !.old_slug = l.old_slug,
                  !.old_title = l.old_title, !.cover = l.cover,
                  !.old_cover = l.old_cover, !.fault = l.fault]

\* what is kept of a request that an uncaught exception has ended
Raised(l, fault) == Returned([l EXCEPT !.fault = fault], "error")

\* request.form values of the title and of one other text field
RawTitles ==
    {<<>>, <<" ">>, <<"a">>, <<"A", " ">>, <<"a", "-", "2">>}
RawSubtitles == {<<"s", " ">>}
\* a slug of the URL that no case has
StrangerSlug == <<"x">>

\* next((item for item in cases if item["slug"] == slug), None), as an index
FirstWithSlug(cases, slug) ==
    LET hits == {i \in 1..Len(cases) : cases[i].slug = slug}
    IN IF hits = {} THEN 0 ELSE CHOOSE i \in hits : \A j \in hits : i <= j

(***************************************************************************)
(* A stored case. Of its keys the model keeps slug, title, subtitle (one   *)
(* of the text fields of the form), cover_image, niche and icon (two of    *)
(* the keys that no form sets and load_cases backfills), metric_1_after    *)
(* (a text field whose default is the value of the older key metric_1),    *)
(* metric_1 and extra (a key the program does not know). A key that the    *)
(* record lacks is Absent. The forms of the model send metric_1_after      *)
(* empty on a create and as it was loaded on an update.                    *)
(***************************************************************************)
Absent == <<"absent">>
DefaultIcon == <<"scales">>

\* case.setdefault(key, default)
SetDefault(value, default) == IF value = Absent THEN default ELSE value

\* load_cases: json.load and the setdefault calls
load_cases(stored) ==
    [i \in 1..Len(stored) |->
        [stored[i] EXCEPT !.cover_image = SetDefault(@, <<>>),
                          !.niche = SetDefault(@, <<>>),
                          !.icon = SetDefault(@, DefaultIcon),
                          !.metric_1_after =
                              SetDefault(@, SetDefault(stored[i].metric_1, <<>>))]]

(***************************************************************************)
(* Cover files. An upload is the file name the browser sent, as its stem   *)
(* and its suffix; covers_dir is the set of the files of UPLOADS_DIR, each *)
(* named as the records name it, and covers_made the number of names       *)
(* uuid4 has been asked for.                                               *)
(***************************************************************************)
File(stem, suffix) == [stem |-> stem, suffix |-> suffix]
\* no file part, or a file part with an empty filename
NoFile == File(<<>>, "")

AllowedImageExtensions == {".png", ".jpg", ".jpeg", ".webp", ".gif"}

\* Path(filename).suffix.lower()
LowerSuffix(suffix) ==
    CASE suffix = ".PNG" -> ".png"
      [] suffix = ".JPG" -> ".jpg"
      [] OTHER -> suffix

\* f"uploads/covers/{uuid.uuid4().hex}{extension}", the n-th name made
CoverPath(n, extension) == <<"c">> \o Str(n) \o <<extension>>

\* save_cover_file up to file_storage.save: None, or the path to save to
save_cover_file(upload, made) ==
    IF upload.stem = <<>> \/ LowerSuffix(upload.suffix) \notin AllowedImageExtensions
    THEN Null
    ELSE CoverPath(made + 1, LowerSuffix(upload.suffix))

\* hist observes the run and is no state of the program: when it is on, it
\* holds the last request that saved the case collection, with the slugs
\* that request loaded at its start
NoEntry == [op |-> "none", title |-> <<>>, slug |-> <<>>, before |-> {}]
HistOff == [on |-> FALSE, last |-> NoEntry]
HistOn == [on |-> TRUE, last |-> NoEntry]

Remember(l) ==
    IF hist.on
    THEN [on |-> TRUE,
          last |-> [op |-> l.op, title |-> l.title, slug |-> l.slug,
                    before |-> SlugsOf(l.cases)]]
    ELSE hist

\* admin_new_case, POST: the title check and cases = load_cases(); without
\* an upload the handler goes on to case_data
NewLoad(p, raw_title, upload) ==
    /\ pc[p] = "idle"
    /\ LET title == Strip(raw_title)
       IN \/ /\ title = <<>>
             /\ loc' = [loc EXCEPT ![p] =
                           [NoLoc EXCEPT !.op = "new", !.outcome = "invalid"]]
             /\ pc' = pc
          \/ /\ title # <<>>
             /\ Len(cases_file) < MaxCases
             /\ upload = NoFile \/ covers_made < MaxCovers
             /\ loc' = [loc EXCEPT ![p] =
                           [NoLoc EXCEPT !.op = "new", !.outcome = "running",
                                         !.cases = load_cases(cases_file),
                                         !.title = title, !.upload = upload]]
             /\ pc' = [pc EXCEPT ![p] =
                          IF upload = NoFile THEN "new_slug" ELSE "new_cover"]
    /\ UNCHANGED <<cases_file, users_file, uloc, session, hist, disk>>

\* saved_cover = save_cover_file(uploaded_cover), the file written
NewCover(p) ==
    /\ pc[p] = "new_cover"
    /\ LET saved_cover == save_cover_file(loc[p].upload, covers_made)
       IN IF saved_cover = Null
          THEN /\ loc' = [loc EXCEPT ![p] = Returned(loc[p], "bad_cover")]
               /\ pc' = [pc EXCEPT ![p] = "idle"]
               /\ UNCHANGED <<covers_dir, covers_made>>
          ELSE /\ covers_dir' = covers_dir \cup {saved_cover}
               /\ covers_made' = covers_made + 1
               /\ loc' = [loc EXCEPT ![p].cover = saved_cover]
               /\ pc' = [pc EXCEPT ![p] = "new_slug"]
    /\ UNCHANGED <<cases_file, users_file, uloc, session, hist, cases_torn>>

\* file_storage.save(file_path) raises: the request ends with the exception
NewCoverFails(p) ==
    /\ pc[p] = "new_cover"
    /\ save_cover_file(loc[p].upload, covers_made) # Null
    /\ covers_made' = covers_made + 1
    /\ loc' = [loc EXCEPT ![p] = Raised(loc[p], "store")]
    /\ pc' = [pc EXCEPT ![p] = "idle"]
    /\ UNCHANGED <<cases_file, users_file, uloc, session, hist, covers_dir, cases_torn>>

\* "slug": make_unique_slug(title), which loads the collection again, and
\* the other fields of case_data
NewSlug(p, raw_subtitle) ==
    /\ pc[p] = "new_slug"
    /\ loc' = [loc EXCEPT ![p].slug = make_unique_slug(loc[p].title, <<>>,
                                                       load_cases(cases_file)),
                          ![p].subtitle = Strip(raw_subtitle)]
    /\ pc' = [pc EXCEPT ![p] = "new_save"]
    /\ UNCHANGED <<cases_file, users_file, uloc, session, hist, disk>>

\* case_data: the keys of the form, and none of niche, icon, extra
case_data(l) ==
    [slug |-> l.slug, title |-> l.title, subtitle |-> l.subtitle,
     cover_image |-> l.cover, niche |-> Absent, icon |-> Absent,
     metric_1_after |-> <<>>, metric_1 |-> Absent, extra |-> Absent]

\* a slip: the record is appended to the collection as it is stored now
NewSave_Merge(p) ==
    /\ pc[p] = "new_save"
    /\ cases_file' = Append(load_cases(cases_file), case_data(loc[p]))
    /\ loc' = [loc EXCEPT ![p] = Returned(loc[p], "created")]
    /\ hist' = Remember(loc[p])
    /\ pc' = [pc EXCEPT ![p] = "idle"]
    /\ UNCHANGED <<users_file, uloc, session, disk>>

\* cases.append(case_data); save_cases(cases)
NewSave(p) ==
    /\ pc[p] = "new_save"
    /\ cases_file' = Append(loc[p].cases, case_data(loc[p]))
    /\ loc' = [loc EXCEPT ![p] = Returned(loc[p], "created")]
    /\ hist' = Remember(loc[p])
    /\ pc' = [pc EXCEPT ![p] = "idle"]
    /\ UNCHANGED <<users_file, uloc, session, disk>>

\* admin_edit_case, POST: cases = load_cases(), the lookup and the title
\* check; without an upload the handler goes on to case.update
EditLoad(p, slug, raw_title, upload) ==
    /\ pc[p] = "idle"
    /\ LET cases == load_cases(cases_file)
           idx == FirstWithSlug(cases, slug)
           title == Strip(raw_title)
       IN IF idx = 0
          THEN /\ loc' = [loc EXCEPT ![p] =
                             [NoLoc EXCEPT !.op = "edit", !.outcome = "notfound"]]
               /\ pc' = pc
          ELSE IF title = <<>>
          THEN /\ loc' = [loc EXCEPT ![p] =
                             [NoLoc EXCEPT !.op = "edit", !.outcome = "invalid"]]
               /\ pc' = pc
          ELSE /\ upload = NoFile \/ covers_made < MaxCovers
               /\ loc' = [loc EXCEPT ![p] =
                             [NoLoc EXCEPT !.op = "edit", !.outcome = "running",
                                           !.cases = cases, !.idx = idx,
                                           !.title = title,
                                           !.old_slug = cases[idx].slug,
                                           !.old_title = cases[idx].title,
                                           !.upload = upload,
                                           !.cover = cases[idx].cover_image,
                                           !.old_cover = cases[idx].cover_image]]
               /\ pc' = [pc EXCEPT ![p] =
                            IF upload = NoFile THEN "edit_slug" ELSE "edit_cover"]
    /\ UNCHANGED <<cases_file, users_file, uloc, session, hist, disk>>

\* saved_cover = save_cover_file(uploaded_cover), the file written; with an
\* old cover the handler goes on to its path
EditCover(p) ==
    /\ pc[p] = "edit_cover"
    /\ LET saved_cover == save_cover_file(loc[p].upload, covers_made)
       IN IF saved_cover = Null
          THEN /\ loc' = [loc EXCEPT ![p] = Returned(loc[p], "bad_cover")]
               /\ pc' = [pc EXCEPT ![p] = "idle"]
               /\ UNCHANGED <<covers_dir, covers_made>>
          ELSE /\ covers_dir' = covers_dir \cup {saved_cover}
               /\ covers_made' = covers_made + 1
               /\ loc' = [loc EXCEPT ![p].cover = saved_cover]
               /\ pc' = [pc EXCEPT ![p] =
                            IF loc[p].old_cover = <<>> THEN "edit_slug"
                            ELSE "edit_unlink"]
    /\ UNCHANGED <<cases_file, users_file, uloc, session, hist, cases_torn>>

\* file_storage.save(file_path) raises: the request ends with the exception
EditCoverFails(p) ==
    /\ pc[p] = "edit_cover"
    /\ save_cover_file(loc[p].upload, covers_made) # Null
    /\ covers_made' = covers_made + 1
    /\ loc' = [loc EXCEPT ![p] = Raised(loc[p], "store")]
    /\ pc' = [pc EXCEPT ![p] = "idle"]
    /\ UNCHANGED <<cases_file, users_file, uloc, session, hist, covers_dir, cases_torn>>

\* if old_cover_path.exists() and old_cover_path.is_file():
\*     old_cover_path.unlink()
EditUnlink(p) ==
    /\ pc[p] = "edit_unlink"
    /\ covers_dir' = covers_dir \ {loc[p].old_cover}
    /\ pc' = [pc EXCEPT ![p] = "edit_slug"]
    /\ UNCHANGED <<cases_file, users_file, loc, uloc, session, hist,
                   covers_made, cases_torn>>

\* old_cover_path.unlink() raises: the request ends with the exception
EditUnlinkFails(p) ==
    /\ pc[p] = "edit_unlink"
    /\ loc[p].old_cover \in covers_dir
    /\ loc' = [loc EXCEPT ![p] = Raised(loc[p], "unlink")]
    /\ pc' = [pc EXCEPT ![p] = "idle"]
    /\ UNCHANGED <<cases_file, users_file, uloc, session, hist, disk>>

\* "slug": make_unique_slug(title, old_slug=case["slug"]) and the other fields
EditSlug(p, raw_subtitle) ==
    /\ pc[p] = "edit_slug"
    /\ loc' = [loc EXCEPT ![p].slug = make_unique_slug(loc[p].title, loc[p].old_slug,
                                                       load_cases(cases_file)),
                          ![p].subtitle = Strip(raw_subtitle)]
    /\ pc' = [pc EXCEPT ![p] = "edit_save"]
    /\ UNCHANGED <<cases_file, users_file, uloc, session, hist, disk>>

\* a slip: the record is replaced by the fields of the form
EditSave_Replace(p) ==
    /\ pc[p] = "edit_save"
    /\ cases_file' = [loc[p].cases EXCEPT ![loc[p].idx] = case_data(loc[p])]
    /\ loc' = [loc EXCEPT ![p] = Returned(loc[p], "updated")]
    /\ hist' = Remember(loc[p])
    /\ pc' = [pc EXCEPT ![p] = "idle"]
    /\ UNCHANGED <<users_file, uloc, session, disk>>

\* case.update({...}); save_cases(cases)
EditSave(p) ==
    /\ pc[p] = "edit_save"
    /\ cases_file' = [loc[p].cases EXCEPT ![loc[p].idx] =
                         [@ EXCEPT !.slug = loc[p].slug, !.title = loc[p].title,
                                   !.subtitle = loc[p].subtitle,
                                   !.cover_image = loc[p].cover]]
    /\ loc' = [loc EXCEPT ![p] = Returned(loc[p], "updated")]
    /\ hist' = Remember(loc[p])
    /\ pc' = [pc EXCEPT ![p] = "idle"]
    /\ UNCHANGED <<users_file, uloc, session, disk>>

\* save_cases(cases) raises before it has opened the file (the file cannot
\* be opened for writing): the request ends with the exception
SaveFails(p) ==
    /\ pc[p] \in {"new_save", "edit_save"}
    /\ loc' = [loc EXCEPT ![p] = Raised(loc[p], "save")]
    /\ pc' = [pc EXCEPT ![p] = "idle"]
    /\ UNCHANGED <<cases_file, users_file, uloc, session, hist, disk>>

EditTargets == SlugsOf(cases_file) \cup {StrangerSlug}

(***************************************************************************)
(* The user collection.                                                    *)
(***************************************************************************)
Truthy(v) == v # Null /\ v # <<>>

\* Python's `a or b`
OrElse(a, b) == IF Truthy(a) THEN a ELSE b

\* generate_password_hash / check_password_hash: the hash stands for the
\* password it was derived from and for nothing else
generate_password_hash(password) == [of |-> password]
check_password_hash(pwhash, password) == pwhash.of = password

\* for user in load_users(): if user["email"] == email_normalized, as an index
UserIndex(users, email) ==
    LET hits == {i \in 1..Len(users) : users[i].email = email}
    IN IF hits = {} THEN 0 ELSE CHOOSE i \in hits : \A j \in hits : i <= j

\* a slip: the email is trimmed and not lower-cased
NormalizeEmail_NoLower(raw_email) == Strip(raw_email)

\* request.form.get("email", "").strip().lower()
NormalizeEmail(raw_email) == Lower(Strip(raw_email))

\* find_user(email) is not None, on what load_users() returns at the call
find_user(stored, email) == UserIndex(stored, Lower(Strip(email)))

LoginsOf(accounts) == {accounts[i].direct_login : i \in 1..Len(accounts)}

\* a slip: the login is looked for among the display names
AlreadyConnected_ByName(accounts, direct_login) ==
    \E i \in 1..Len(accounts) : accounts[i].display_name = direct_login

\* already_connected is not None
AlreadyConnected(accounts, direct_login) ==
    \E i \in 1..Len(accounts) : accounts[i].direct_login = direct_login

(***************************************************************************)
(* validate_direct_connection. A response of the Direct API:               *)
(*   exc          "request" when requests.post (or response.json()) raises *)
(*                a RequestException, "other" for any other exception      *)
(*   status_code, text   the HTTP status and body                          *)
(*   has_error, error_detail, error_string   the "error" envelope          *)
(*   customers    result.Customers, each with Name and Login               *)
(***************************************************************************)
ExcerptLen == 200
MsgUnknown == <<"unknown-api-error">>
MsgNoCustomers == <<"no-customers">>

HttpMessage(status_code, text) ==
    <<"H", "T", "T", "P", " ">> \o Str(status_code) \o <<":", " ">>
        \o SubSeq(text, 1, IF Len(text) < ExcerptLen THEN Len(text) ELSE ExcerptLen)

\* a slip: the "error" envelope is not looked at
validate_direct_connection_ErrorIgnored(response) ==
    IF response.status_code >= 400
    THEN [is_valid |-> FALSE,
          value |-> HttpMessage(response.status_code, response.text)]
    ELSE IF response.customers = <<>>
    THEN [is_valid |-> FALSE, value |-> MsgNoCustomers]
    ELSE [is_valid |-> TRUE,
          value |-> OrElse(response.customers[1].Name, response.customers[1].Login)]

\* a slip: the "error" envelope is looked at before the status
validate_direct_connection_EnvelopeFirst(response) ==
    IF response.has_error
    THEN [is_valid |-> FALSE,
          value |-> OrElse(response.error_detail,
                           OrElse(response.error_string, MsgUnknown))]
    ELSE IF response.status_code >= 400
    THEN [is_valid |-> FALSE,
          value |-> HttpMessage(response.status_code, response.text)]
    ELSE IF response.customers = <<>>
    THEN [is_valid |-> FALSE, value |-> MsgNoCustomers]
    ELSE [is_valid |-> TRUE,
          value |-> OrElse(response.customers[1].Name, response.customers[1].Login)]

\* the (is_valid, name_or_error) pair
validate_direct_connection(response) ==
    IF response.status_code >= 400
    THEN [is_valid |-> FALSE,
          value |-> HttpMessage(response.status_code, response.text)]
    ELSE IF response.has_error
    THEN [is_valid |-> FALSE,
          value |-> OrElse(response.error_detail,
                           OrElse(response.error_string, MsgUnknown))]
    ELSE IF response.customers = <<>>
    THEN [is_valid |-> FALSE, value |-> MsgNoCustomers]
    ELSE [is_valid |-> TRUE,
          value |-> OrElse(response.customers[1].Name, response.customers[1].Login)]

Customer(name, login) == [Name |-> name, Login |-> login]

Reply(status_code, text, has_error, detail, string, customers) ==
    [exc |-> "none", status_code |-> status_code, text |-> text,
     has_error |-> has_error, error_detail |-> detail, error_string |-> string,
     customers |-> customers]

\* no response received
NoResponse == Reply(0, <<>>, FALSE, Null, Null, <<>>)

Responses ==
    {[Reply(200, <<>>, FALSE, Null, Null, <<>>) EXCEPT !.exc = e] :
        e \in {"request", "other"}}
    \cup {Reply(403, <<"f">>, FALSE, Null, Null, <<>>),
          Reply(500, <<"f">>, TRUE, <<"d">>, Null, <<Customer(<<"n">>, <<"x">>)>>),
          Reply(200, <<>>, TRUE, <<"d">>, <<"g">>, <<>>),
          Reply(200, <<>>, TRUE, Null, <<"g">>, <<>>),
          Reply(200, <<>>, TRUE, Null, Null, <<Customer(<<"n">>, <<"x">>)>>),
          Reply(200, <<>>, FALSE, Null, Null, <<>>),
          Reply(200, <<>>, FALSE, Null, Null, <<Customer(<<"n">>, <<"x">>)>>),
          Reply(200, <<>>, FALSE, Null, Null,
                <<Customer(Null, <<"x">>), Customer(<<"n">>, <<"y">>)>>),
          Reply(200, <<>>, FALSE, Null, Null, <<Customer(<<>>, Null)>>)}

(***************************************************************************)
(* The account handlers. session[p] is session["user_email"] of client p,  *)
(* <<>> when it is not set; uloc[p] holds the local variables of p's       *)
(* request and, after it returns, what the request did.                    *)
(***************************************************************************)
NoULoc ==
    [op |-> "none", outcome |-> "none", users |-> <<>>, user_index |-> 0,
     email |-> <<>>, password |-> <<>>, direct_login |-> <<>>, token |-> <<>>,
     name |-> <<>>, calls |-> 0, had_login |-> FALSE, raw |-> <<>>,
     response |-> NoResponse]

UReturned(l, outcome) ==
    [NoULoc EXCEPT !.op = l.op, !.outcome = outcome, !.email = l.email,
                   !.password = l.password, !.direct_login = l.direct_login, !.token = l.token,
                   !.name = l.name, !.calls = l.calls, !.had_login = l.had_login,
                   !.raw = l.raw]

\* request.form values
RawEmails == {<<"a", "@">>, <<" ", "A", "@">>, <<"b", "@">>, <<"a">>, <<" ">>}
Pw5 == <<"p", "p", "p", "p", "p">>
Pw6 == <<"p", "p", "p", "p", "p", "p">>
Passwords == {Pw5, Pw6}
MinPasswordLen == 6
RawTokens == {<<"t">>, <<" ", "t">>, <<>>}
RawLogins == {<<"x">>, <<"y", " ">>, <<" ">>}
\* <direct_login> of the disconnect URL
UrlLogins == {<<"x">>, <<"y">>}

\* a slip: the password is checked before the email
SignupCheck_PasswordFirst(p, raw_email, password) ==
    /\ pc[p] = "idle"
    /\ LET email == NormalizeEmail(raw_email)
           start == [NoULoc EXCEPT !.op = "signup", !.email = email,
                                   !.raw = raw_email, !.password = password]
       IN IF Len(password) < MinPasswordLen
          THEN /\ uloc' = [uloc EXCEPT ![p] = UReturned(start, "weak_password")]
               /\ pc' = pc
          ELSE IF email = <<>> \/ "@" \notin {email[i] : i \in 1..Len(email)}
          THEN /\ uloc' = [uloc EXCEPT ![p] = UReturned(start, "invalid_email")]
               /\ pc' = pc
          ELSE IF find_user(users_file, email) # 0
          THEN /\ uloc' = [uloc EXCEPT ![p] = UReturned(start, "duplicate")]
               /\ pc' = pc
          ELSE /\ uloc' = [uloc EXCEPT ![p] =
                              [start EXCEPT !.outcome = "running"]]
               /\ pc' = [pc EXCEPT ![p] = "signup_load"]
    /\ UNCHANGED <<cases_file, users_file, loc, session, hist, disk>>

\* signup, POST: the checks of the form and find_user(email)
SignupCheck(p, raw_email, password) ==
    /\ pc[p] = "idle"
    /\ LET email == NormalizeEmail(raw_email)
           start == [NoULoc EXCEPT !.op = "signup", !.email = email,
                                   !.raw = raw_email, !.password = password]
       IN IF email = <<>> \/ "@" \notin {email[i] : i \in 1..Len(email)}
          THEN /\ uloc' = [uloc EXCEPT ![p] = UReturned(start, "invalid_email")]
               /\ pc' = pc
          ELSE IF Len(password) < MinPasswordLen
          THEN /\ uloc' = [uloc EXCEPT ![p] = UReturned(start, "weak_password")]
               /\ pc' = pc
          ELSE IF find_user(users_file, email) # 0
          THEN /\ uloc' = [uloc EXCEPT ![p] = UReturned(start, "duplicate")]
               /\ pc' = pc
          ELSE /\ uloc' = [uloc EXCEPT ![p] =
                              [start EXCEPT !.outcome = "running"]]
               /\ pc' = [pc EXCEPT ![p] = "signup_load"]
    /\ UNCHANGED <<cases_file, users_file, loc, session, hist, disk>>

\* users = load_users()
SignupLoad(p) ==
    /\ pc[p] = "signup_load"
    /\ uloc' = [uloc EXCEPT ![p].users = users_file]
    /\ pc' = [pc EXCEPT ![p] = "signup_save"]
    /\ UNCHANGED <<cases_file, users_file, loc, session, hist, disk>>

\* users.append({...}); save_users(users); session["user_email"] = email
SignupSave(p) ==
    /\ pc[p] = "signup_save"
    /\ users_file' = Append(uloc[p].users,
                            [email |-> uloc[p].email,
                             password_hash |-> generate_password_hash(uloc[p].password),
                             direct_accounts |-> <<>>])
    /\ session' = [session EXCEPT ![p] = uloc[p].email]
    /\ uloc' = [uloc EXCEPT ![p] = UReturned(uloc[p], "registered")]
    /\ pc' = [pc EXCEPT ![p] = "idle"]
    /\ UNCHANGED <<cases_file, loc, hist, disk>>

\* a slip: an email that is not stored gets an answer of its own
Login_NamesUnknown(p, raw_email, password) ==
    /\ pc[p] = "idle"
    /\ LET email == NormalizeEmail(raw_email)
           start == [NoULoc EXCEPT !.op = "login", !.email = email,
                                   !.password = password]
           user == find_user(users_file, email)
       IN IF user = 0
          THEN /\ uloc' = [uloc EXCEPT ![p] = UReturned(start, "unknown_email")]
               /\ session' = session
          ELSE IF ~check_password_hash(users_file[user].password_hash, password)
          THEN /\ uloc' = [uloc EXCEPT ![p] = UReturned(start, "auth_failed")]
               /\ session' = session
          ELSE /\ uloc' = [uloc EXCEPT ![p] = UReturned(start, "logged_in")]
               /\ session' = [session EXCEPT ![p] = users_file[user].email]
    /\ UNCHANGED <<cases_file, users_file, pc, loc, hist, disk>>

\* login, POST
Login(p, raw_email, password) ==
    /\ pc[p] = "idle"
    /\ LET email == NormalizeEmail(raw_email)
           start == [NoULoc EXCEPT !.op = "login", !.email = email,
                                   !.password = password]
           user == find_user(users_file, email)
       IN IF user = 0 \/ ~check_password_hash(users_file[user].password_hash, password)
          THEN /\ uloc' = [uloc EXCEPT ![p] = UReturned(start, "auth_failed")]
               /\ session' = session
          ELSE /\ uloc' = [uloc EXCEPT ![p] = UReturned(start, "logged_in")]
               /\ session' = [session EXCEPT ![p] = users_file[user].email]
    /\ UNCHANGED <<cases_file, users_file, pc, loc, hist, disk>>

\* logout
Logout(p) ==
    /\ pc[p] = "idle"
    /\ session[p] # <<>>
    /\ session' = [session EXCEPT ![p] = <<>>]
    /\ uloc' = [uloc EXCEPT ![p] = [NoULoc EXCEPT !.op = "logout", !.outcome = "logged_out"]]
    /\ UNCHANGED <<cases_file, users_file, pc, loc, hist, disk>>

\* connect_direct: auth_required, the form check, users = load_users(), the
\* lookup of the user and of an account with this login
LinkLoad(p, raw_token, raw_login) ==
    /\ pc[p] = "idle"
    /\ LET token == Strip(raw_token)
           direct_login == Strip(raw_login)
           users == users_file
           user_index == UserIndex(users, session[p])
           start == [NoULoc EXCEPT
                        !.op = "link", !.email = session[p],
                        !.token = token, !.direct_login = direct_login,
                        !.had_login =
                            /\ user_index # 0
                            /\ direct_login \in
                                  LoginsOf(users[user_index].direct_accounts)]
       IN IF session[p] = <<>>
          THEN /\ uloc' = [uloc EXCEPT ![p] = UReturned(start, "login_required")]
               /\ pc' = pc
          ELSE IF token = <<>> \/ direct_login = <<>>
          THEN /\ uloc' = [uloc EXCEPT ![p] = UReturned(start, "missing_field")]
               /\ pc' = pc
          ELSE IF user_index = 0
          THEN /\ uloc' = [uloc EXCEPT ![p] = UReturned(start, "no_user")]
               /\ pc' = pc
          ELSE IF AlreadyConnected(users[user_index].direct_accounts, direct_login)
          THEN /\ uloc' = [uloc EXCEPT ![p] = UReturned(start, "duplicate")]
               /\ pc' = pc
          ELSE /\ uloc' = [uloc EXCEPT ![p] =
                              [start EXCEPT !.outcome = "running", !.users = users,
                                            !.user_index = user_index]]
               /\ pc' = [pc EXCEPT ![p] = "link_verify"]
    /\ UNCHANGED <<cases_file, users_file, loc, session, hist, disk>>

\* a slip: a request that raised is sent once more
LinkVerify_Retry(p, response) ==
    /\ pc[p] = "link_verify"
    /\ LET called == [uloc[p] EXCEPT !.calls = @ + 1, !.response = response]
           result == validate_direct_connection(response)
       IN IF response.exc = "request" /\ uloc[p].calls = 0
          THEN /\ uloc' = [uloc EXCEPT ![p] = called]
               /\ pc' = pc
          ELSE IF response.exc # "none" \/ ~result.is_valid
          THEN /\ uloc' = [uloc EXCEPT ![p] =
                              UReturned([called EXCEPT !.name = result.value],
                                        "not_connected")]
               /\ pc' = [pc EXCEPT ![p] = "idle"]
          ELSE /\ uloc' = [uloc EXCEPT ![p] = [called EXCEPT !.name = result.value]]
               /\ pc' = [pc EXCEPT ![p] = "link_save"]
    /\ UNCHANGED <<cases_file, users_file, loc, session, hist, disk>>

\* is_valid, name_or_error = validate_direct_connection(token, direct_login):
\* one requests.post, answered by `response`
LinkVerify(p, response) ==
    /\ pc[p] = "link_verify"
    /\ LET called == [uloc[p] EXCEPT !.calls = @ + 1, !.response = response]
           result == validate_direct_connection(response)
       IN IF response.exc = "request"
          THEN /\ uloc' = [uloc EXCEPT ![p] = UReturned(called, "api_unreachable")]
               /\ pc' = [pc EXCEPT ![p] = "idle"]
          ELSE IF response.exc = "other"
          THEN /\ uloc' = [uloc EXCEPT ![p] = UReturned(called, "server_error")]
               /\ pc' = [pc EXCEPT ![p] = "idle"]
          ELSE IF ~result.is_valid
          THEN /\ uloc' = [uloc EXCEPT ![p] =
                              UReturned([called EXCEPT !.name = result.value],
                                        "not_connected")]
               /\ pc' = [pc EXCEPT ![p] = "idle"]
          ELSE /\ uloc' = [uloc EXCEPT ![p] = [called EXCEPT !.name = result.value]]
               /\ pc' = [pc EXCEPT ![p] = "link_save"]
    /\ UNCHANGED <<cases_file, users_file, loc, session, hist, disk>>

\* a slip: the account is appended to the users as stored at the time of the
\* save, not to the users the request loaded
LinkSave_Merge(p) ==
    /\ pc[p] = "link_save"
    /\ LET at == UserIndex(users_file, uloc[p].email)
       IN users_file' =
              IF at = 0 THEN uloc[p].users
              ELSE [users_file EXCEPT ![at].direct_accounts =
                       Append(@, [direct_login |-> uloc[p].direct_login,
                                  display_name |-> uloc[p].name,
                                  access_token |-> uloc[p].token])]
    /\ uloc' = [uloc EXCEPT ![p] = UReturned(uloc[p], "connected")]
    /\ pc' = [pc EXCEPT ![p] = "idle"]
    /\ UNCHANGED <<cases_file, loc, session, hist, disk>>

\* user.setdefault("direct_accounts", []).append({...}); save_users(users)
LinkSave(p) ==
    /\ pc[p] = "link_save"
    /\ users_file' = [uloc[p].users EXCEPT ![uloc[p].user_index].direct_accounts =
                         Append(@, [direct_login |-> uloc[p].direct_login,
                                    display_name |-> uloc[p].name,
                                    access_token |-> uloc[p].token])]
    /\ uloc' = [uloc EXCEPT ![p] = UReturned(uloc[p], "connected")]
    /\ pc' = [pc EXCEPT ![p] = "idle"]
    /\ UNCHANGED <<cases_file, loc, session, hist, disk>>

\* a slip: every account of the user is dropped
WithoutLogin_All(accounts, direct_login) == <<>>

\* the accounts with another login, in their order
RECURSIVE WithoutLogin(_, _)
WithoutLogin(accounts, direct_login) ==
    IF accounts = <<>> THEN <<>>
    ELSE IF accounts[1].direct_login # direct_login
         THEN <<accounts[1]>> \o WithoutLogin(Tail(accounts), direct_login)
         ELSE WithoutLogin(Tail(accounts), direct_login)

\* disconnect_direct: auth_required, users = load_users(), the lookup of the
\* user and the filtering of the accounts
UnlinkLoad(p, direct_login) ==
    /\ pc[p] = "idle"
    /\ LET users == users_file
           user_index == UserIndex(users, session[p])
           start == [NoULoc EXCEPT !.op = "unlink", !.email = session[p],
                                   !.direct_login = direct_login]
       IN IF session[p] = <<>>
          THEN /\ uloc' = [uloc EXCEPT ![p] = UReturned(start, "login_required")]
               /\ pc' = pc
          ELSE IF user_index = 0
          THEN /\ uloc' = [uloc EXCEPT ![p] = UReturned(start, "no_user")]
               /\ pc' = pc
          ELSE LET before == Len(users[user_index].direct_accounts)
                   kept == WithoutLogin(users[user_index].direct_accounts, direct_login)
               IN IF Len(kept) = before
                  THEN /\ uloc' = [uloc EXCEPT ![p] = UReturned(start, "not_found")]
                       /\ pc' = pc
                  ELSE /\ uloc' = [uloc EXCEPT ![p] =
                                      [start EXCEPT
                                          !.outcome = "running",
                                          !.had_login = TRUE,
                                          !.user_index = user_index,
                                          !.users = [users EXCEPT
                                              ![user_index].direct_accounts = kept]]]
                       /\ pc' = [pc EXCEPT ![p] = "unlink_save"]
    /\ UNCHANGED <<cases_file, users_file, loc, session, hist, disk>>

\* save_users(users)
UnlinkSave(p) ==
    /\ pc[p] = "unlink_save"
    /\ users_file' = uloc[p].users
    /\ uloc' = [uloc EXCEPT ![p] = UReturned(uloc[p], "disconnected")]
    /\ pc' = [pc EXCEPT ![p] = "idle"]
    /\ UNCHANGED <<cases_file, loc, session, hist, disk>>

(***************************************************************************)
(* The state after start-up: no data file exists, so both collections load *)
(* as empty, and nobody is logged in.                                      *)
(***************************************************************************)
Init ==
    /\ cases_file = <<>>
    /\ users_file = <<>>
    /\ pc = [p \in Procs |-> "idle"]
    /\ loc = [p \in Procs |-> NoLoc]
    /\ uloc = [p \in Procs |-> NoULoc]
    /\ session = [p \in Procs |-> <<>>]
    /\ hist = HistOff
    /\ ops = 0
    /\ covers_dir = {}
    /\ covers_made = 0
    /\ cases_torn = FALSE

\* the same start, with the observer on
InitObserved ==
    /\ cases_file = <<>>
    /\ users_file = <<>>
    /\ pc = [p \in Procs |-> "idle"]
    /\ loc = [p \in Procs |-> NoLoc]
    /\ uloc = [p \in Procs |-> NoULoc]
    /\ session = [p \in Procs |-> <<>>]
    /\ hist = HistOn
    /\ ops = 0
    /\ covers_dir = {}
    /\ covers_made = 0
    /\ cases_torn = FALSE

\* case requests served one at a time: one worker, no interleaving
NextCases ==
    \E p \in SeqProcs :
        \/ \E t \in RawTitles : NewLoad(p, t, NoFile) /\ UNCHANGED ops
        \/ \E s \in RawSubtitles : NewSlug(p, s) /\ UNCHANGED ops
        \/ NewSave(p) /\ UNCHANGED ops
        \/ \E s \in EditTargets, t \in RawTitles : EditLoad(p, s, t, NoFile) /\ UNCHANGED ops
        \/ \E s \in RawSubtitles : EditSlug(p, s) /\ UNCHANGED ops
        \/ EditSave(p) /\ UNCHANGED ops

SpecCases == Init /\ [][NextCases]_vars

SpecCasesObserved == InitObserved /\ [][NextCases]_vars

\* case requests of two workers, their file reads and writes interleaved;
\* at most MaxOps requests are started
NextCasesConc ==
    \E p \in Procs :
        \/ \E t \in RawTitles : NewLoad(p, t, NoFile) /\ ops < MaxOps /\ ops' = ops + 1
        \/ \E s \in RawSubtitles : NewSlug(p, s) /\ UNCHANGED ops
        \/ NewSave(p) /\ UNCHANGED ops
        \/ \E s \in EditTargets, t \in RawTitles :
              EditLoad(p, s, t, NoFile) /\ ops < MaxOps /\ ops' = ops + 1
        \/ \E s \in RawSubtitles : EditSlug(p, s) /\ UNCHANGED ops
        \/ EditSave(p) /\ UNCHANGED ops

SpecCasesConc == Init /\ [][NextCasesConc]_vars

\* account requests served one at a time: one client, no interleaving
NextUsers ==
    \E p \in SeqProcs :
        \/ \E e \in RawEmails, w \in Passwords : SignupCheck(p, e, w) /\ UNCHANGED ops
        \/ SignupLoad(p) /\ UNCHANGED ops
        \/ SignupSave(p) /\ UNCHANGED ops
        \/ \E e \in RawEmails, w \in Passwords : Login(p, e, w) /\ UNCHANGED ops
        \/ Logout(p) /\ UNCHANGED ops
        \/ \E t \in RawTokens, l \in RawLogins : LinkLoad(p, t, l) /\ UNCHANGED ops
        \/ \E r \in Responses : LinkVerify(p, r) /\ UNCHANGED ops
        \/ LinkSave(p) /\ UNCHANGED ops
        \/ \E l \in UrlLogins : UnlinkLoad(p, l) /\ UNCHANGED ops
        \/ UnlinkSave(p) /\ UNCHANGED ops

SpecUsers == Init /\ [][NextUsers]_vars

\* signups of two clients, their file reads and writes interleaved; at most
\* MaxOps requests are started
NextSignupConc ==
    \E p \in Procs :
        \/ \E e \in RawEmails, w \in Passwords :
              SignupCheck(p, e, w) /\ ops < MaxOps /\ ops' = ops + 1
        \/ SignupLoad(p) /\ UNCHANGED ops
        \/ SignupSave(p) /\ UNCHANGED ops

SpecSignupConc == Init /\ [][NextSignupConc]_vars

(***************************************************************************)
(* The claims about slugs.                                                 *)
(***************************************************************************)
Dash2(base) == base \o <<"-", "2">>

\* C1: after any sequence of case creates and updates run one at a time from
\* an empty collection, every stored case has a non-empty slug and no two
\* stored cases have the same slug.
C1_SlugsUniqueNonEmpty ==
    \A i \in 1..Len(cases_file) :
        /\ cases_file[i].slug # <<>>
        /\ \A j \in 1..Len(cases_file) :
              i # j => cases_file[i].slug # cases_file[j].slug

\* an update has just been saved into a full collection in which two titles
\* derive the same base slug
C1_Witness ==
    /\ Len(cases_file) = MaxCases
    /\ loc[1].op = "edit" /\ loc[1].outcome = "updated"
    /\ \E i, j \in 1..Len(cases_file) :
          i # j /\ slugify(cases_file[i].title) = slugify(cases_file[j].title)

\* C2: under any interleaving of the load, slug and save steps of concurrent
\* creates and updates, the stored collection never holds two cases with the
\* same slug.
C2_SlugsUniqueConcurrent ==
    Cardinality(SlugsOf(cases_file)) = Len(cases_file)

\* C3: an update that submits the title the case already has leaves the
\* slug of that case unchanged.
C3_SameTitleKeepsSlug ==
    \A p \in Procs :
        (loc[p].op = "edit" /\ loc[p].outcome = "updated"
            /\ loc[p].title = loc[p].old_title)
        => loc[p].slug = loc[p].old_slug

\* the slugs make_unique_slug finds taken when worker p has just called it
\* and no other request runs
TakenAtCall(p) ==
    SlugsOf(cases_file) \ (IF loc[p].op = "edit" THEN {loc[p].old_slug} ELSE {})

\* C4: make_unique_slug returns slugify(title) when that is not taken, and
\* otherwise base-k for the smallest k >= 2 with base-k not taken; what it
\* returns is never taken.
C4_SmallestFreeSuffix ==
    \A p \in Procs :
        pc[p] \in {"new_save", "edit_save"} =>
            LET base == slugify(loc[p].title)
                taken == TakenAtCall(p)
                got == loc[p].slug
            IN /\ got \notin taken
               /\ IF base \notin taken
                  THEN got = base
                  ELSE \E k \in 2..(Cardinality(taken) + 2) :
                          /\ got = base \o <<"-">> \o Str(k)
                          /\ \A j \in 2..(k - 1) :
                                (base \o <<"-">> \o Str(j)) \in taken

\* an update got the suffix 3: the base and base-2 are taken by other cases
C4_Witness ==
    \E p \in Procs :
        /\ pc[p] = "edit_save"
        /\ loc[p].slug = slugify(loc[p].title) \o <<"-", "3">>
        /\ loc[p].old_slug # loc[p].slug

\* two creates in a row, of titles T1 # T2 with one base slug, the first
\* started from a collection without that base slug
TwoCreates ==
    /\ hist.last.op = "new" /\ hist'.last.op = "new"
    /\ hist'.last.title # hist.last.title
    /\ slugify(hist'.last.title) = slugify(hist.last.title)
    /\ slugify(hist.last.title) \notin hist.last.before

\* C5 as stated: the two creates store the base slug and then base-2.
C5_SecondGetsDash2 ==
    [][TwoCreates =>
          /\ hist.last.slug = slugify(hist.last.title)
          /\ hist'.last.slug = Dash2(slugify(hist.last.title))]_vars

\* C5, amended: the same, when base-2 was not a stored slug either.
C5_SecondGetsDash2IfFree ==
    [][(TwoCreates /\ Dash2(slugify(hist.last.title)) \notin hist.last.before) =>
          /\ hist.last.slug = slugify(hist.last.title)
          /\ hist'.last.slug = Dash2(slugify(hist.last.title))
          /\ hist'.last.slug # hist.last.slug]_vars

\* the second of two such creates has been saved with the suffix -2
C5_Witness ==
    /\ hist.last.op = "new"
    /\ hist.last.slug = Dash2(slugify(hist.last.title))
    /\ slugify(hist.last.title) \in hist.last.before
    /\ Dash2(slugify(hist.last.title)) \notin hist.last.before
    /\ \E i \in 1..Len(cases_file) :
          /\ cases_file[i].slug = slugify(hist.last.title)
          /\ cases_file[i].title # hist.last.title
          /\ i + 1 = Len(cases_file)

(***************************************************************************)
(* The claims about the user collection.                                   *)
(***************************************************************************)
EmailsOf(users) == {Lower(Strip(users[i].email)) : i \in 1..Len(users)}

\* how many stored users have this normalized email
UsersWith(email) ==
    Cardinality({i \in 1..Len(users_file) :
                    Lower(Strip(users_file[i].email)) = email})

\* C6: after any sequence of signups run one at a time, no two stored users
\* have the same normalized email; a signup whose email is, but for letter
\* case and surrounding whitespace, that of a stored user gets no further
\* than the duplicate check, and an accepted signup leaves one user with it.
C6_EmailsUnique ==
    /\ \A i, j \in 1..Len(users_file) :
          i # j => Lower(Strip(users_file[i].email)) # Lower(Strip(users_file[j].email))
    /\ \A p \in Procs :
          /\ pc[p] \in {"signup_load", "signup_save"}
                => UsersWith(Lower(Strip(uloc[p].raw))) = 0
          /\ (uloc[p].op = "signup" /\ uloc[p].outcome = "registered")
                => UsersWith(Lower(Strip(uloc[p].raw))) = 1

\* a signup was rejected as a duplicate though no stored email is written
\* like the submitted one
C6_Witness ==
    \E p \in Procs :
        /\ uloc[p].op = "signup" /\ uloc[p].outcome = "duplicate"
        /\ \A i \in 1..Len(users_file) : users_file[i].email # uloc[p].raw
        /\ Len(users_file) = 2

\* C7: under any interleaving of the steps of concurrent signups, the
\* stored user collection never holds two users with one normalized email.
C7_EmailsUniqueConcurrent ==
    Cardinality(EmailsOf(users_file)) = Len(users_file)

\* some stored user has one more linked account after the step
Appended(i) ==
    /\ i <= Len(users_file) /\ i <= Len(users_file')
    /\ Len(users_file'[i].direct_accounts) > Len(users_file[i].direct_accounts)

\* the response is none of the failures: no exception, a status below 400,
\* no error envelope, a customer in the result
Succeeded(r) ==
    /\ r.exc = "none"
    /\ r.status_code < 400
    /\ ~r.has_error
    /\ Len(r.customers) > 0

\* C8: an account is appended only by a link request whose one call to the
\* verifier succeeded, for the session's user, with the login and the token
\* of that call and the name the verifier returned; a link request whose
\* call failed leaves the stored users as they were.
C8_LinkOnlyAfterSuccess ==
    [][/\ \A i \in 1..Len(users_file) :
             Appended(i) =>
                \E p \in Procs :
                    LET r == uloc[p].response
                        was == users_file[i].direct_accounts
                        now == users_file'[i].direct_accounts
                    IN /\ pc[p] = "link_save" /\ pc'[p] = "idle"
                       /\ uloc[p].calls = 1
                       /\ Succeeded(r)
                       /\ users_file[i].email = session[p]
                       /\ now = Append(was,
                                   [direct_login |-> uloc[p].direct_login,
                                    display_name |->
                                        IF r.customers[1].Name \notin {Null, <<>>}
                                        THEN r.customers[1].Name
                                        ELSE r.customers[1].Login,
                                    access_token |-> uloc[p].token])
       /\ \A p \in Procs :
             (pc[p] = "link_verify" /\ ~Succeeded(uloc'[p].response))
                => (users_file' = users_file /\ pc'[p] = "idle")]_vars

\* a link request has stored an account under the name the API gave
C8_Witness ==
    \E p \in Procs, i \in 1..Len(users_file) :
        /\ uloc[p].op = "link" /\ uloc[p].outcome = "connected"
        /\ users_file[i].email = session[p]
        /\ \E k \in 1..Len(users_file[i].direct_accounts) :
              /\ users_file[i].direct_accounts[k].direct_login = uloc[p].direct_login
              /\ users_file[i].direct_accounts[k].display_name = <<"n">>
              /\ users_file[i].direct_accounts[k].access_token = <<"t">>

\* how many accounts with this login the user with this email has
AccountsWith(email, direct_login) ==
    LET i == UserIndex(users_file, email)
    IN IF i = 0 THEN 0
       ELSE Cardinality({k \in 1..Len(users_file[i].direct_accounts) :
                users_file[i].direct_accounts[k].direct_login = direct_login})

\* C9: after any sequence of link and unlink requests run one at a time, no
\* user has two linked accounts with one login; a link of a login the user
\* has is answered as a duplicate and leaves one account with it.
C9_LoginsUniquePerUser ==
    /\ \A i \in 1..Len(users_file) :
          Cardinality(LoginsOf(users_file[i].direct_accounts))
              = Len(users_file[i].direct_accounts)
    /\ \A p \in Procs :
          /\ pc[p] \in {"link_verify", "link_save"}
                => AccountsWith(uloc[p].email, uloc[p].direct_login) = 0
          /\ (uloc[p].op = "link" /\ uloc[p].outcome \in {"duplicate", "connected"})
                => AccountsWith(uloc[p].email, uloc[p].direct_login) = 1

\* a link was answered as a duplicate while another user has the same login
C9_Witness ==
    \E p \in Procs :
        /\ uloc[p].op = "link" /\ uloc[p].outcome = "duplicate"
        /\ Len(users_file) = 2
        /\ \A i \in 1..2 : uloc[p].direct_login \in LoginsOf(users_file[i].direct_accounts)
        /\ \E i \in 1..2 : Len(users_file[i].direct_accounts) = 2

\* a link request of a logged-in client has returned
LinkReturned(p) == uloc[p].op = "link" /\ pc[p] = "idle" /\ uloc[p].email # <<>>

\* C10 as stated: a link of a login the user has makes no call to the API,
\* any other link makes one call, and no link makes more than one.
C10_OneCallUnlessDuplicate ==
    \A p \in Procs :
        /\ uloc[p].calls <= 1
        /\ LinkReturned(p) =>
              uloc[p].calls = (IF uloc[p].had_login THEN 0 ELSE 1)

\* C10, amended: any other link of a stored user that submits a token and a
\* login makes one call; a link that is turned away before the duplicate
\* check (an empty field, no such user) makes none.
C10_OneCallUnlessTurnedAway ==
    \A p \in Procs :
        /\ uloc[p].calls <= 1
        /\ pc[p] = "link_save" => uloc[p].calls = 1
        /\ LinkReturned(p) =>
              uloc[p].calls =
                 (IF \/ uloc[p].had_login
                     \/ uloc[p].token = <<>>
                     \/ uloc[p].direct_login = <<>>
                     \/ UserIndex(users_file, uloc[p].email) = 0
                  THEN 0 ELSE 1)

\* a link whose one call raised has returned, and it was not sent again
C10_Witness ==
    \E p \in Procs :
        /\ LinkReturned(p)
        /\ uloc[p].outcome = "api_unreachable"
        /\ uloc[p].calls = 1
        /\ ~uloc[p].had_login

(***************************************************************************)
(* C11. Unlinking an account.                                              *)
(***************************************************************************)
\* the accounts of `accounts` whose login is not direct_login, in their order
AccountsKept(accounts, direct_login) ==
    LET Other(a) == a.direct_login # direct_login
    IN SelectSeq(accounts, Other)

\* the user `email` of `users` has an account with this login
HasAccount(users, email, direct_login) ==
    LET i == UserIndex(users, email)
    IN i # 0 /\ direct_login \in LoginsOf(users[i].direct_accounts)

\* the step is the start of an unlink request of a logged-in, stored user
UnlinkStarts(p) ==
    /\ pc[p] = "idle"
    /\ uloc'[p].op = "unlink"
    /\ UserIndex(users_file, session[p]) # 0

\* C11: an unlink request for a login the user has no account with reports
\* not-found and writes nothing; a request for a login the user has goes on
\* to a save that removes every account with that login from this user,
\* keeps the user's other accounts in their order and leaves every other
\* user as it was.
C11_UnlinkRemovesMatching ==
    [][\A p \in SeqProcs :
          LET i == UserIndex(users_file, session[p])
              d == uloc'[p].direct_login
          IN /\ UnlinkStarts(p) =>
                  /\ users_file' = users_file
                  /\ IF ~HasAccount(users_file, session[p], d)
                     THEN pc'[p] = "idle" /\ uloc'[p].outcome = "not_found"
                     ELSE pc'[p] = "unlink_save"
             /\ pc[p] = "unlink_save" =>
                  /\ pc'[p] = "idle" /\ uloc'[p].outcome = "disconnected"
                  /\ Len(users_file') = Len(users_file)
                  /\ \A j \in 1..Len(users_file) :
                        IF j = i
                        THEN users_file'[j] =
                                [users_file[j] EXCEPT !.direct_accounts =
                                    AccountsKept(@, d)]
                        ELSE users_file'[j] = users_file[j]
                  /\ ~HasAccount(users_file', session[p], d)]_vars

\* an unlink has removed one account of a user who keeps another one, with
\* a second user stored
C11_Witness ==
    /\ uloc[1].op = "unlink" /\ uloc[1].outcome = "disconnected"
    /\ Len(users_file) = 2
    /\ LET i == UserIndex(users_file, uloc[1].email)
       IN i # 0 /\ Len(users_file[i].direct_accounts) = 1

(***************************************************************************)
(* C12. The checks of a signup, in their order.                            *)
(***************************************************************************)
\* what a signup with this form must end its checks with, on `stored`
SignupVerdict(stored, raw_email, password) ==
    LET email == Lower(Strip(raw_email))
    IN IF email = <<>> \/ \A i \in 1..Len(email) : email[i] # "@"
       THEN "invalid_email"
       ELSE IF Len(password) < MinPasswordLen
       THEN "weak_password"
       ELSE IF \E i \in 1..Len(stored) : stored[i].email = email
       THEN "duplicate"
       ELSE "running"

\* C12: a signup is rejected for an invalid email first, then for a password
\* shorter than six characters, then for an email already stored, and a
\* rejected signup writes nothing; an accepted one appends exactly one
\* record, with the trimmed and lower-cased email and no linked accounts,
\* after the records that were stored, which stay as they were.
C12_SignupChecksInOrder ==
    [][\A p \in SeqProcs :
          /\ (pc[p] = "idle" /\ uloc'[p].op = "signup") =>
                /\ uloc'[p].outcome =
                      SignupVerdict(users_file, uloc'[p].raw, uloc'[p].password)
                /\ users_file' = users_file
                /\ pc'[p] = IF uloc'[p].outcome = "running"
                            THEN "signup_load" ELSE "idle"
          /\ pc[p] = "signup_load" => users_file' = users_file
          /\ pc[p] = "signup_save" =>
                /\ uloc'[p].outcome = "registered"
                /\ Len(users_file') = Len(users_file) + 1
                /\ SubSeq(users_file', 1, Len(users_file)) = users_file
                /\ users_file'[Len(users_file')].email = Lower(Strip(uloc[p].raw))
                /\ users_file'[Len(users_file')].direct_accounts = <<>>]_vars

\* a signup with a stored email and a short password was turned away for
\* the password, and an earlier signup had stored that email
C12_Witness ==
    /\ uloc[1].op = "signup" /\ uloc[1].outcome = "weak_password"
    /\ UsersWith(uloc[1].email) = 1
    /\ uloc[1].raw # uloc[1].email

(***************************************************************************)
(* C13. A failed login tells nothing about the stored emails.              *)
(***************************************************************************)
\* what the client of a login step gets: the answer, and whether the
\* session and the user collection are as they were
LoginResult(p) ==
    <<uloc'[p].outcome, session'[p] = session[p], users_file' = users_file>>

\* C13: a login with an email that is not stored and a login with a stored
\* email and a wrong password get one and the same result: the same answer,
\* the session as it was, the user collection as it was.
C13_FailedLoginsAlike ==
    [][\A p \in SeqProcs :
          (pc[p] = "idle" /\ uloc'[p].op = "login") =>
              LET i == UserIndex(users_file, uloc'[p].email)
                  unknown == i = 0
                  wrong == /\ i # 0
                           /\ users_file[i].password_hash.of # uloc'[p].password
              IN (unknown \/ wrong) =>
                    LoginResult(p) = <<"auth_failed", TRUE, TRUE>>]_vars

\* a logged-in client has failed to log in with a stored email (its own)
\* and a wrong password, and is logged in as before
C13_Witness ==
    /\ uloc[1].op = "login" /\ uloc[1].outcome = "auth_failed"
    /\ UsersWith(uloc[1].email) = 1
    /\ session[1] = uloc[1].email

(***************************************************************************)
(* The verifier on its own: validate_direct_connection applied to the      *)
(* replies the Direct API documents, and to a request that fails.          *)
(***************************************************************************)
\* a body one character longer than the excerpt, the last one differing
LongBody == [i \in 1..(ExcerptLen + 1) |-> IF i <= ExcerptLen THEN "f" ELSE "g"]

Statuses == {200, 399, 400, 503}
Bodies == {<<>>, <<"f">>, LongBody}
Envelopes ==
    {<<FALSE, Null, Null>>}
    \cup {<<TRUE, d, s>> : d \in {Null, <<>>, <<"d">>}, s \in {Null, <<"g">>}}
CustomerLists ==
    {<<>>, <<Customer(<<"n">>, <<"x">>)>>,
     <<Customer(Null, <<"y">>), Customer(<<"n">>, <<"x">>)>>}

Replies ==
    {[NoResponse EXCEPT !.exc = "request"]}
    \cup {Reply(c, t, e[1], e[2], e[3], l) :
             c \in Statuses, t \in Bodies, e \in Envelopes, l \in CustomerLists}

\* one call of validate_direct_connection, answered by `response`; a
\* RequestException of requests.post leaves the function
Verify(p, response) ==
    /\ pc[p] = "idle"
    /\ LET result == validate_direct_connection(response)
           start == [NoULoc EXCEPT !.op = "verify", !.response = response]
       IN uloc' = [uloc EXCEPT ![p] =
              IF response.exc = "request"
              THEN [start EXCEPT !.outcome = "raised"]
              ELSE [start EXCEPT
                       !.outcome = IF result.is_valid THEN "valid" ELSE "invalid",
                       !.name = result.value]]
    /\ UNCHANGED <<cases_file, users_file, pc, loc, session, hist, disk>>

NextVerify ==
    \E p \in SeqProcs, r \in Replies : Verify(p, r) /\ UNCHANGED ops

SpecVerify == Init /\ [][NextVerify]_vars

(***************************************************************************)
(* C14. The classes of the verifier, in their order.                       *)
(***************************************************************************)
\* the first rule of the fixed order that the response matches
VerifierClass(r) ==
    IF r.exc = "request" THEN "transport"
    ELSE IF r.status_code >= 400 THEN "http"
    ELSE IF r.has_error THEN "api"
    ELSE IF r.customers = <<>> THEN "not_found"
    ELSE "success"

\* the message names the status and ends with the body or, of a longer
\* body, with its first 200 characters
IsHttpMessage(message, r) ==
    LET head == <<"H", "T", "T", "P", " ">> \o Str(r.status_code) \o <<":", " ">>
        n == Len(message) - Len(head)
    IN /\ n >= 0 /\ n <= ExcerptLen
       /\ SubSeq(message, 1, Len(head)) = head
       /\ SubSeq(message, Len(head) + 1, Len(message)) = SubSeq(r.text, 1, n)
       /\ n = Len(r.text) \/ n = ExcerptLen

\* the verifier has answered l.response as the class of the response asks,
\* an error envelope being answered with `detail`
AnsweredAsClassified(l, detail) ==
    CASE VerifierClass(l.response) = "transport" -> l.outcome = "raised"
      [] VerifierClass(l.response) = "http" ->
            l.outcome = "invalid" /\ IsHttpMessage(l.name, l.response)
      [] VerifierClass(l.response) = "api" ->
            l.outcome = "invalid" /\ l.name = detail
      [] VerifierClass(l.response) = "not_found" ->
            l.outcome = "invalid" /\ l.name = MsgNoCustomers
      [] OTHER -> l.outcome = "valid"

C15_DisplayNameNeverEmpty ==
    /\ \A p \in SeqProcs :
          pc[p] = "link_save" =>
              uloc[p].name =
                  IF Truthy(uloc[p].response.customers[1].Name)
                  THEN uloc[p].response.customers[1].Name
                  ELSE uloc[p].direct_login
    /\ \A i \in 1..Len(users_file) :
          \A k \in 1..Len(users_file[i].direct_accounts) :
              Truthy(users_file[i].direct_accounts[k].display_name)

(***************************************************************************)
(* Case requests with cover uploads and with file operations that fail,    *)
(* served one at a time. The collection starts with one case of a data     *)
(* file written by hand: it has the keys the admin forms do not set, and   *)
(* a cover that is in the cover directory.                                 *)
(***************************************************************************)
LegacyCover == CoverPath(0, ".png")

LegacyCase ==
    [slug |-> <<"b">>, title |-> <<"b">>, subtitle |-> <<"s">>,
     cover_image |-> LegacyCover, niche |-> <<"n">>, icon |-> <<"i">>,
     metric_1_after |-> Absent, metric_1 |-> <<"5">>, extra |-> <<"e">>]

InitLegacy ==
    /\ cases_file = <<LegacyCase>>
    /\ users_file = <<>>
    /\ pc = [p \in Procs |-> "idle"]
    /\ loc = [p \in Procs |-> NoLoc]
    /\ uloc = [p \in Procs |-> NoULoc]
    /\ session = [p \in Procs |-> <<>>]
    /\ hist = HistOff
    /\ ops = 0
    /\ covers_dir = {LegacyCover}
    /\ covers_made = 0
    /\ cases_torn = FALSE

\* request.form titles and request.files covers
CoverTitles == {<<" ">>, <<"a">>}
Uploads == {NoFile, File(<<"p">>, ".PNG"), File(<<"p">>, ".exe")}

NextCovers ==
    \E p \in SeqProcs :
        \/ \E t \in CoverTitles, u \in Uploads : NewLoad(p, t, u) /\ UNCHANGED ops
        \/ NewCover(p) /\ UNCHANGED ops
        \/ NewCoverFails(p) /\ UNCHANGED ops
        \/ \E s \in RawSubtitles : NewSlug(p, s) /\ UNCHANGED ops
        \/ NewSave(p) /\ UNCHANGED ops
        \/ \E s \in EditTargets, t \in CoverTitles, u \in Uploads :
              EditLoad(p, s, t, u) /\ UNCHANGED ops
        \/ EditCover(p) /\ UNCHANGED ops
        \/ EditCoverFails(p) /\ UNCHANGED ops
        \/ EditUnlink(p) /\ UNCHANGED ops
        \/ EditUnlinkFails(p) /\ UNCHANGED ops
        \/ \E s \in RawSubtitles : EditSlug(p, s) /\ UNCHANGED ops
        \/ EditSave(p) /\ UNCHANGED ops
        \/ SaveFails(p) /\ UNCHANGED ops

SpecCovers == InitLegacy /\ [][NextCovers]_vars

(***************************************************************************)
(* C18. Stored cover paths and the files of the cover directory.           *)
(***************************************************************************)
\* the cover_image of every stored case is empty or names a file that is
\* in the cover directory
NoDanglingCover ==
    \A i \in 1..Len(cases_file) :
        \/ load_cases(cases_file)[i].cover_image = <<>>
        \/ cases_file[i].cover_image \in covers_dir

\* C18: when no request is being served, whatever the requests before have
\* done and wherever they have failed, every stored case with a non-empty
\* cover_image names a file that exists in the cover directory.
C18_NoDanglingCover ==
    (\A p \in SeqProcs : pc[p] = "idle") => NoDanglingCover

(***************************************************************************)
(* C19. The old cover of a case whose cover is replaced.                   *)
(***************************************************************************)
\* C19: a file leaves the cover directory only as the old cover of an
\* update whose new cover has been stored, and only when it is there; the
\* update goes on from the deletion of the old cover to the record update
\* whether or not the deletion has succeeded, and its save stores the path
\* of the new cover.
C19_UpdateSurvivesFailedDelete ==
    [][\A p \in SeqProcs :
          /\ (covers_dir \ covers_dir' # {}) =>
                /\ pc[p] = "edit_unlink"
                /\ covers_dir \ covers_dir' = {loc[p].old_cover}
                /\ loc[p].cover \in covers_dir /\ loc[p].cover # loc[p].old_cover
          /\ pc[p] = "edit_unlink" =>
                pc'[p] = "edit_slug" /\ loc'[p].cover = loc[p].cover
          /\ (pc[p] = "edit_save" /\ loc'[p].outcome = "updated") =>
                cases_file'[loc[p].idx].cover_image = loc[p].cover]_vars

(***************************************************************************)
(* C20. What an update leaves alone.                                       *)
(***************************************************************************)
\* C20: an update that goes past its checks has a non-empty title and the
\* slug of a stored case, and an update that does not writes nothing; the
\* save of an update without a cover upload keeps the cover_image, the
\* niche, the icon and the unknown key of the case, keeps every other case
\* and its place, and keeps the number of cases. Records are compared as
\* load_cases returns them.
C20_UpdateKeepsTheRest ==
    [][\A p \in SeqProcs :
          /\ (pc[p] = "idle" /\ loc'[p].op = "edit") =>
                /\ cases_file' = cases_file /\ covers_dir' = covers_dir
                /\ pc'[p] # "idle" =>
                      /\ loc'[p].title # <<>>
                      /\ loc'[p].old_slug \in SlugsOf(cases_file)
          /\ (pc[p] = "edit_save" /\ loc[p].upload = NoFile
                /\ loc'[p].outcome = "updated") =>
                LET old == load_cases(cases_file)
                    new == load_cases(cases_file')
                    i == FirstWithSlug(old, loc[p].old_slug)
                IN /\ Len(new) = Len(old)
                   /\ covers_dir' = covers_dir
                   /\ \A j \in 1..Len(old) :
                         IF j = i
                         THEN /\ new[j].cover_image = old[j].cover_image
                              /\ new[j].niche = old[j].niche
                              /\ new[j].icon = old[j].icon
                              /\ new[j].extra = old[j].extra
                         ELSE new[j] = old[j]]_vars

\* an update without an upload has given the hand-written case, the first
\* of two, another title; it has its cover, its niche and its unknown key
C20_Witness ==
    /\ loc[1].op = "edit" /\ loc[1].outcome = "updated"
    /\ loc[1].old_title = <<"b">> /\ loc[1].title = <<"a">>
    /\ loc[1].cover = LegacyCover /\ LegacyCover \in covers_dir
    /\ Len(cases_file) = 2
    /\ cases_file[1].title = <<"a">>
    /\ cases_file[1].cover_image = LegacyCover
    /\ cases_file[1].niche = <<"n">> /\ cases_file[1].extra = <<"e">>

(***************************************************************************)
(* save_cases step by step, next to a request that loads: worker Writer    *)
(* creates cases and worker Reader opens the list of the cases. While the  *)
(* data file is open for writing it holds none of the collection.          *)
(***************************************************************************)
Writer == 1
Reader == 2

\* save_cases: DATA_FILE.open("w") truncates the file
SaveOpen(p) ==
    /\ pc[p] = "new_save"
    /\ cases_file' = <<>>
    /\ cases_torn' = TRUE
    /\ pc' = [pc EXCEPT ![p] = "new_dump"]
    /\ UNCHANGED <<users_file, loc, uloc, session, hist, covers_dir, covers_made>>

\* save_cases: json.dump(cases, file) and the close of the file
SaveDump(p) ==
    /\ pc[p] = "new_dump"
    /\ cases_file' = Append(loc[p].cases, case_data(loc[p]))
    /\ cases_torn' = FALSE
    /\ loc' = [loc EXCEPT ![p] = Returned(loc[p], "created")]
    /\ hist' = Remember(loc[p])
    /\ pc' = [pc EXCEPT ![p] = "idle"]
    /\ UNCHANGED <<users_file, uloc, session, covers_dir, covers_made>>

\* admin_list: cases = load_cases(); json.load raises on a file that does
\* not hold a whole JSON text
ListLoad(p) ==
    /\ pc[p] = "idle"
    /\ loc' = [loc EXCEPT ![p] =
                  IF cases_torn
                  THEN Raised([NoLoc EXCEPT !.op = "list"], "load")
                  ELSE [NoLoc EXCEPT !.op = "list", !.outcome = "listed",
                                     !.cases = load_cases(cases_file)]]
    /\ UNCHANGED <<cases_file, users_file, pc, uloc, session, hist, disk>>

NextTornSave ==
    \/ \E t \in RawTitles : NewLoad(Writer, t, NoFile) /\ UNCHANGED ops
    \/ \E s \in RawSubtitles : NewSlug(Writer, s) /\ UNCHANGED ops
    \/ SaveOpen(Writer) /\ UNCHANGED ops
    \/ SaveDump(Writer) /\ UNCHANGED ops
    \/ ListLoad(Reader) /\ UNCHANGED ops

SpecTornSave == Init /\ [][NextTornSave]_vars

(***************************************************************************)
(* C16. A load while a save is in progress.                                *)
(***************************************************************************)
\* C16: a request that loads the case collection gets a whole collection,
\* the one before or the one after a save in progress, and never fails on
\* an empty or a partly written file.
C16_LoadSeesWholeCollection ==
    \A p \in Procs :
        loc[p].op = "list" =>
            /\ loc[p].outcome = "listed"
            /\ loc[p].fault = "none"

(***************************************************************************)
(* Requests of two workers that write: case creates on the case            *)
(* collection, signups and links on the user collection, their file reads  *)
(* and writes interleaved; at most MaxOps requests are started.            *)
(***************************************************************************)
WriterTitles == {<<"a">>, <<"a", "-", "2">>}
WriterEmails == {<<"a", "@">>, <<"b", "@">>}
WriterLogins == {<<"x">>}
Verified == Reply(200, <<>>, FALSE, Null, Null, <<Customer(<<"n">>, <<"x">>)>>)

NextWritersConc ==
    \E p \in Procs :
        \/ \E t \in WriterTitles :
              NewLoad(p, t, NoFile) /\ ops < MaxOps /\ ops' = ops + 1
        \/ \E s \in RawSubtitles : NewSlug(p, s) /\ UNCHANGED ops
        \/ NewSave(p) /\ UNCHANGED ops
        \/ \E e \in WriterEmails :
              SignupCheck(p, e, Pw6) /\ ops < MaxOps /\ ops' = ops + 1
        \/ SignupLoad(p) /\ UNCHANGED ops
        \/ SignupSave(p) /\ UNCHANGED ops
        \/ \E l \in WriterLogins :
              LinkLoad(p, <<"t">>, l) /\ ops < MaxOps /\ ops' = ops + 1
        \/ LinkVerify(p, Verified) /\ UNCHANGED ops
        \/ LinkSave(p) /\ UNCHANGED ops

SpecWritersConc == Init /\ [][NextWritersConc]_vars

(***************************************************************************)
(* C17. The last write wins.                                               *)
(***************************************************************************)
Records(s) == {s[i] : i \in 1..Len(s)}

\* the save of `after` over `before` has kept, of what `before` had and the
\* saver had not loaded in `snapshot`, only what equals the saver's change
LostToSaver(before, snapshot, after, change) ==
    \A r \in Records(before) \ Records(snapshot) :
        r \in Records(after) => r \in change

\* C17: whatever has been saved since a request loaded its collection, the
\* save of the request leaves the file with the collection the request had
\* loaded plus its own change: a case or a user that another request has
\* added in between is gone, and so is an account that another request has
\* linked; the request reports success.
C17_LastWriteWins ==
    [][\A p \in Procs :
          /\ (pc[p] = "new_save" /\ pc'[p] = "idle") =>
                /\ loc'[p].outcome = "created"
                /\ Len(cases_file') = Len(loc[p].cases) + 1
                /\ SubSeq(load_cases(cases_file'), 1, Len(loc[p].cases)) = loc[p].cases
                /\ cases_file'[Len(cases_file')].slug = loc[p].slug
                /\ LostToSaver(load_cases(cases_file), loc[p].cases,
                               load_cases(cases_file'),
                               {load_cases(cases_file')[Len(cases_file')]})
          /\ (pc[p] = "signup_save" /\ pc'[p] = "idle") =>
                /\ uloc'[p].outcome = "registered"
                /\ Len(users_file') = Len(uloc[p].users) + 1
                /\ SubSeq(users_file', 1, Len(uloc[p].users)) = uloc[p].users
                /\ users_file'[Len(users_file')].email = uloc[p].email
                /\ LostToSaver(users_file, uloc[p].users, users_file',
                               {users_file'[Len(users_file')]})
          /\ (pc[p] = "link_save" /\ pc'[p] = "idle") =>
                /\ uloc'[p].outcome = "connected"
                /\ Len(users_file') = Len(uloc[p].users)
                /\ \A i \in 1..Len(users_file') :
                      /\ users_file'[i].email = uloc[p].users[i].email
                      /\ users_file'[i].direct_accounts =
                            IF i = uloc[p].user_index
                            THEN Append(uloc[p].users[i].direct_accounts,
                                        [direct_login |-> uloc[p].direct_login,
                                         display_name |-> uloc[p].name,
                                         access_token |-> uloc[p].token])
                            ELSE uloc[p].users[i].direct_accounts]_vars

\* two creates with different titles, the only requests made, have both
\* reported success and one case is stored; at another time the user
\* collection has lost a signup the same way
C17_Witness ==
    /\ ops = 2
    /\ loc[1].op = "new" /\ loc[1].outcome = "created"
    /\ loc[2].op = "new" /\ loc[2].outcome = "created"
    /\ loc[1].title # loc[2].title
    /\ Len(cases_file) = 1
    /\ cases_file[1].title = loc[2].title

(***************************************************************************)
(* The text of data/cases.json. json.dump writes, for every record, the    *)
(* keys the record has, each with its value; json.load gives every record  *)
(* the keys of the text. The text is kept as the sequence of the records,  *)
(* each the sequence of its <<key, value>> pairs.                          *)
(***************************************************************************)
Keys ==
    <<"slug", "title", "subtitle", "cover_image", "niche", "icon",
      "metric_1_after", "metric_1", "extra">>

\* json.dump(cases, file)
json_dump(records) ==
    LET Has(pair) == pair[2] # Absent
    IN [i \in 1..Len(records) |->
           SelectSeq([k \in 1..Len(Keys) |-> <<Keys[k], records[i][Keys[k]]>>], Has)]

\* the value of `key` in the pairs of one object, Absent without the key
ValueOf(object, key) ==
    LET at == {j \in 1..Len(object) : object[j][1] = key}
    IN IF at = {} THEN Absent ELSE object[CHOOSE j \in at : TRUE][2]

\* a slip: only the keys the program knows are read
json_load_KnownKeys(text) ==
    [i \in 1..Len(text) |->
        [key \in {Keys[k] : k \in 1..Len(Keys)} |->
            IF key # "extra" THEN ValueOf(text[i], key) ELSE Absent]]

\* json.load(file)
json_load(text) ==
    [i \in 1..Len(text) |->
        [key \in {Keys[k] : k \in 1..Len(Keys)} |-> ValueOf(text[i], key)]]

(***************************************************************************)
(* save_cases(load_cases()) on a data file written by hand or by an older  *)
(* version: every record may lack any of the keys that are backfilled.     *)
(***************************************************************************)
MaxStored == 2

StoredCase(i, cover, niche, after, metric, extra) ==
    [slug |-> <<DigitChars[i]>>, title |-> <<DigitChars[i]>>, subtitle |-> <<"s">>,
     cover_image |-> cover, niche |-> niche, icon |-> Absent,
     metric_1_after |-> after, metric_1 |-> metric, extra |-> extra]

StoredCases(i) ==
    {StoredCase(i, c, n, a, m, e) :
        c \in {Absent, LegacyCover}, n \in {Absent, <<"n">>},
        a \in {Absent, <<"7">>}, m \in {Absent, <<"5">>}, e \in {Absent, <<"e">>}}

StoredFiles ==
    {f \in UNION {[1..n -> UNION {StoredCases(i) : i \in 1..MaxStored}] :
                     n \in 0..MaxStored} :
        \A i \in 1..Len(f) : f[i] \in StoredCases(i)}

InitStored ==
    /\ cases_file \in StoredFiles
    /\ users_file = <<>>
    /\ pc = [p \in Procs |-> "idle"]
    /\ loc = [p \in Procs |-> NoLoc]
    /\ uloc = [p \in Procs |-> NoULoc]
    /\ session = [p \in Procs |-> <<>>]
    /\ hist = HistOff
    /\ ops = 0
    /\ covers_dir = {LegacyCover}
    /\ covers_made = 0
    /\ cases_torn = FALSE

\* save_cases(load_cases()): the text is read, the records are backfilled
\* and written
Resave(p) ==
    /\ pc[p] = "idle"
    /\ LET records == load_cases(json_load(json_dump(cases_file)))
       IN /\ cases_file' = json_load(json_dump(records))
          /\ loc' = [loc EXCEPT ![p] =
                        [NoLoc EXCEPT !.op = "resave", !.outcome = "saved",
                                      !.cases = records]]
    /\ UNCHANGED <<users_file, pc, uloc, session, hist, disk>>

NextResave ==
    \E p \in SeqProcs : Resave(p) /\ UNCHANGED ops

SpecResave == InitStored /\ [][NextResave]_vars


\* the keys that load_cases backfills are all there in every record
Backfilled(stored) ==
    \A i \in 1..Len(stored) :
        \A key \in {"cover_image", "niche", "icon", "metric_1_after"} :
            stored[i][key] # Absent

\* every key a record had is kept with its value
KeepsPresent(before, after) ==
    /\ Len(after) = Len(before)
    /\ \A i \in 1..Len(before) :
           \A k \in 1..Len(Keys) :
               before[i][Keys[k]] # Absent => after[i][Keys[k]] = before[i][Keys[k]]

\* C21 as stated: saving the result of a load leaves the text of the file
\* as it was, loading what was saved returns the saved records, and a load
\* after the save equals the load before it.
C21_ResaveIsNoOp ==
    [][/\ json_dump(cases_file') = json_dump(cases_file)
       /\ load_cases(cases_file') = load_cases(cases_file)
       /\ \A p \in SeqProcs :
              loc'[p] # loc[p] => load_cases(cases_file') = loc'[p].cases]_vars

\* C21 amended: saving the result of a load writes the records with the
\* backfilled keys added, so the text of the file is left as it was only when
\* no record lacked a backfilled key; every key a record had keeps its value,
\* loading what was saved returns the saved records, and a load after the
\* save equals the load before it (the backfill is idempotent).
C21_ResaveKeepsContent ==
    [][/\ KeepsPresent(cases_file, cases_file')
       /\ Backfilled(cases_file')
       /\ load_cases(cases_file') = load_cases(cases_file)
       /\ load_cases(load_cases(cases_file)) = load_cases(cases_file)
       /\ Backfilled(cases_file) => json_dump(cases_file') = json_dump(cases_file)
       /\ \A p \in SeqProcs :
              loc'[p] # loc[p] => load_cases(cases_file') = loc'[p].cases]_vars

\* a file whose record lacked metric_1_after and carried a key the program
\* does not know has been saved again
C21_Witness ==
    /\ loc[1].op = "resave"
    /\ cases_file = loc[1].cases
    /\ Len(cases_file) = MaxStored
    /\ \E i \in 1..Len(cases_file) :
           /\ cases_file[i].metric_1_after = <<"5">>
           /\ cases_file[i].icon = DefaultIcon
           /\ cases_file[i].extra = <<"e">>
    /\ \E i \in 1..Len(cases_file) : cases_file[i].metric_1_after = <<"7">>


(***************************************************************************)
(* slugify on its own: titles of up to MaxText characters, among them an   *)
(* ASCII letter in both cases, the letter io in both cases, another        *)
(* Cyrillic letter, a digit, a blank, a hyphen and a character slugify     *)
(* drops.                                                                  *)
(***************************************************************************)
MaxText == 3
TextChars == {"a", "A", "io", "IO", "zh", "1", " ", "-", "!"}
Texts == UNION {[1..n -> TextChars] : n \in 0..MaxText}

\* the title handed to slugify
InitText ==
    /\ cases_file = <<>>
    /\ users_file = <<>>
    /\ pc = [p \in Procs |-> "idle"]
    /\ \E text \in Texts :
           loc = [p \in Procs |->
                     IF p \in SeqProcs THEN [NoLoc EXCEPT !.title = text] ELSE NoLoc]
    /\ uloc = [p \in Procs |-> NoULoc]
    /\ session = [p \in Procs |-> <<>>]
    /\ hist = HistOff
    /\ ops = 0
    /\ covers_dir = {}
    /\ covers_made = 0
    /\ cases_torn = FALSE

\* slugify(text)
Slugify(p) ==
    /\ pc[p] = "idle"
    /\ loc[p].op = "none"
    /\ loc' = [loc EXCEPT ![p] =
                  [@ EXCEPT !.op = "slugify", !.slug = slugify(loc[p].title)]]
    /\ UNCHANGED <<cases_file, users_file, pc, uloc, session, hist, disk>>

NextSlugify ==
    \E p \in SeqProcs : Slugify(p) /\ UNCHANGED ops

SpecSlugify == InitText /\ [][NextSlugify]_vars

\* the pipeline of the claim, in which io is a Cyrillic letter and is kept
\* by the first step
PipelineKeeps(c) == SlugChar(c) \/ c \in {"io", "IO"}
Pipeline(text) ==
    LET cleaned == Lower(Strip(SelectSeq(text, PipelineKeeps)))
        replaced == [i \in 1..Len(cleaned) |->
                        IF cleaned[i] = "io" THEN "ie" ELSE cleaned[i]]
        slug == CollapseHyphens(SpacesToHyphen(replaced))
    IN IF slug = <<>> THEN FallbackSlug ELSE slug

\* C22: slugify equals the pipeline of the claim on every title (a title
\* with the letter io gives a slug with ie at that position), and the
\* result is never empty.
C22_SlugifyIsPipeline ==
    \A p \in SeqProcs :
        loc[p].op = "slugify" =>
            /\ loc[p].slug = Pipeline(loc[p].title)
            /\ loc[p].slug # <<>>


(***************************************************************************)
(* Links and unlinks of two workers logged in as the same user, their file *)
(* reads, verifier calls and file writes interleaved; at most MaxOps       *)
(* requests are started. The user is registered, with no linked account or *)
(* with one.                                                               *)
(***************************************************************************)
Owner == <<"a", "@">>
LinkLogins == {<<"x">>, <<"y">>}
Refused == Reply(200, <<>>, FALSE, Null, Null, <<>>)
LinkReplies == {Verified, Refused}

Linked(direct_login) ==
    [direct_login |-> direct_login, display_name |-> <<"n">>,
     access_token |-> <<"t">>]

InitLinked ==
    /\ cases_file = <<>>
    /\ \E accounts \in {<<>>, <<Linked(<<"x">>)>>} :
           users_file = <<[email |-> Owner,
                           password_hash |-> generate_password_hash(Pw6),
                           direct_accounts |-> accounts]>>
    /\ pc = [p \in Procs |-> "idle"]
    /\ loc = [p \in Procs |-> NoLoc]
    /\ uloc = [p \in Procs |-> NoULoc]
    /\ session = [p \in Procs |-> Owner]
    /\ hist = HistOff
    /\ ops = 0
    /\ covers_dir = {}
    /\ covers_made = 0
    /\ cases_torn = FALSE

NextLinkConc ==
    \E p \in Procs :
        \/ \E l \in LinkLogins :
              LinkLoad(p, <<"t">>, l) /\ ops < MaxOps /\ ops' = ops + 1
        \/ \E r \in LinkReplies : LinkVerify(p, r) /\ UNCHANGED ops
        \/ LinkSave(p) /\ UNCHANGED ops
        \/ \E l \in LinkLogins :
              UnlinkLoad(p, l) /\ ops < MaxOps /\ ops' = ops + 1
        \/ UnlinkSave(p) /\ UNCHANGED ops

SpecLinkConc == InitLinked /\ [][NextLinkConc]_vars

(***************************************************************************)
(* C23. No duplicate linked logins.                                        *)
(***************************************************************************)
DistinctLogins(accounts) ==
    \A i, j \in 1..Len(accounts) :
        accounts[i].direct_login = accounts[j].direct_login => i = j

NoDuplicateLogins(users) ==
    \A u \in 1..Len(users) : DistinctLogins(users[u].direct_accounts)

\* C23: under any interleaving of the load, verify and save steps of links
\* and unlinks, no stored user has two linked accounts with the same login:
\* the users a link is about to save are the users it loaded, in which the
\* login it appends is not linked, and the users an unlink is about to save
\* have no duplicate either.
C23_NoDuplicateLogins ==
    /\ NoDuplicateLogins(users_file)
    /\ \A p \in Procs :
           /\ pc[p] \in {"link_verify", "link_save"} =>
                  /\ NoDuplicateLogins(uloc[p].users)
                  /\ ~AlreadyConnected(
                         uloc[p].users[uloc[p].user_index].direct_accounts,
                         uloc[p].direct_login)
           /\ pc[p] = "unlink_save" => NoDuplicateLogins(uloc[p].users)

\* the only two requests were links of the same login by the two workers,
\* both were answered 'connected', and the user has that login once: one of
\* the two appends is lost
C23_Witness ==
    /\ \A p \in Procs :
           /\ uloc[p].op = "link"
           /\ uloc[p].outcome = "connected"
           /\ uloc[p].direct_login = <<"x">>
    /\ LoginsOf(users_file[1].direct_accounts) = {<<"x">>}
    /\ Len(users_file[1].direct_accounts) = 1
    /\ ops = 2

====
